---------------------------- MODULE Spec2Model ----------------------------
(***************************************************************************)
(* A model of evm/p2p/les.py: the LES/1 sub-protocol of py-evm.            *)
(*                                                                         *)
(* The model has two parts.                                                *)
(*  - The Status codec (Status.decode_payload / Status.encode_payload and  *)
(*    the sedes each key uses), as operators over RLP items, and the two   *)
(*    as_head_info methods.  They are exercised by the specification       *)
(*    CodecSpec.                                                           *)
(*  - The LESProtocol operations (send_handshake, process_handshake,       *)
(*    send_get_block_headers, send_get_block_bodies) acting on a transport *)
(*    log, exercised by the specification Spec.                            *)
(*                                                                         *)
(* Data representation.                                                    *)
(*  - Python bytes: a sequence of integers in 0..255.                      *)
(*  - Python str: a TLA+ string; AsciiOf gives its bytes.                  *)
(*  - An RLP item (what sedes.raw keeps): B(bytes) or L(<<items>>).        *)
(*    Both have the fields t, b and l, so that any two compare.            *)
(*  - A Python dict: a function whose domain is the set of its keys.       *)
(*    Where the order of its items matters (sorted), the keys are also     *)
(*    given as a sequence, in insertion order.                             *)
(*  - The outcome of a call that may raise: Ok(value) or Err(exception).   *)
(***************************************************************************)
EXTENDS Integers, Sequences, FiniteSets, TLC

VARIABLES
    network_id,     \* self.peer.network_id
    genesis_hash,   \* self.peer.genesis.hash
    hs_state,       \* the session's handshake state
    negotiated,     \* the session's negotiated peer parameters
    sent,           \* what self.send has handed to the transport, in order
    last            \* the last call: operation, arguments, outcome

vars == <<network_id, genesis_hash, hs_state, negotiated, sent, last>>

-----------------------------------------------------------------------------
(* Outcomes and RLP items *)

Ok(v) == [ok |-> TRUE, val |-> v]
Err(e) == [ok |-> FALSE, err |-> e]

B(bytes) == [t |-> "b", b |-> bytes, l |-> <<>>]
L(items) == [t |-> "l", b |-> <<>>, l |-> items]

\* An optional argument of a call: given, or left out by the caller.
Given(v) == <<v>>
NotGiven == <<>>

-----------------------------------------------------------------------------
(* Strings and their bytes *)

\* The ASCII bytes of every str the model uses: the thirteen keys of
\* Status.items_sedes and two keys that table does not know (announceType
\* and serveRecentState, keys of later LES versions), of which one sorts
\* before every known key and one after serveHeaders.
AsciiOf ==
    [k \in {"protocolVersion", "networkId", "headTd", "headHash", "headNum",
            "genesisHash", "serveHeaders", "serveChainSince",
            "serveStateSince", "txRelay", "flowControl/BL",
            "flowControl/MRC", "flowControl/MRR", "announceType",
            "serveRecentState"} |->
       CASE k = "protocolVersion" ->
              <<112, 114, 111, 116, 111, 99, 111, 108, 86, 101, 114, 115, 105, 111, 110>>
         [] k = "networkId" -> <<110, 101, 116, 119, 111, 114, 107, 73, 100>>
         [] k = "headTd" -> <<104, 101, 97, 100, 84, 100>>
         [] k = "headHash" -> <<104, 101, 97, 100, 72, 97, 115, 104>>
         [] k = "headNum" -> <<104, 101, 97, 100, 78, 117, 109>>
         [] k = "genesisHash" ->
              <<103, 101, 110, 101, 115, 105, 115, 72, 97, 115, 104>>
         [] k = "serveHeaders" ->
              <<115, 101, 114, 118, 101, 72, 101, 97, 100, 101, 114, 115>>
         [] k = "serveChainSince" ->
              <<115, 101, 114, 118, 101, 67, 104, 97, 105, 110, 83, 105, 110, 99, 101>>
         [] k = "serveStateSince" ->
              <<115, 101, 114, 118, 101, 83, 116, 97, 116, 101, 83, 105, 110, 99, 101>>
         [] k = "txRelay" -> <<116, 120, 82, 101, 108, 97, 121>>
         [] k = "flowControl/BL" ->
              <<102, 108, 111, 119, 67, 111, 110, 116, 114, 111, 108, 47, 66, 76>>
         [] k = "flowControl/MRC" ->
              <<102, 108, 111, 119, 67, 111, 110, 116, 114, 111, 108, 47, 77, 82, 67>>
         [] k = "flowControl/MRR" ->
              <<102, 108, 111, 119, 67, 111, 110, 116, 114, 111, 108, 47, 77, 82, 82>>
         [] k = "announceType" ->
              <<97, 110, 110, 111, 117, 110, 99, 101, 84, 121, 112, 101>>
         [] k = "serveRecentState" ->
              <<115, 101, 114, 118, 101, 82, 101, 99, 101, 110, 116, 83, 116, 97, 116, 101>>]

\* bytes.decode('ascii'): UnicodeDecodeError on a byte above 127, else the
\* str with those code points.
ascii_decode(bytes) ==
    IF \E i \in 1..Len(bytes) : bytes[i] > 127
    THEN Err("UnicodeDecodeError")
    ELSE Ok(CHOOSE s \in DOMAIN AsciiOf : AsciiOf[s] = bytes)

\* Python's order on str (by code point), on the strs' bytes.
RECURSIVE BytesLess(_, _)
BytesLess(a, b) ==
    IF b = <<>> THEN FALSE
    ELSE IF a = <<>> THEN TRUE
    ELSE IF a[1] # b[1] THEN a[1] < b[1]
    ELSE BytesLess(Tail(a), Tail(b))

StrLess(s, t) == BytesLess(AsciiOf[s], AsciiOf[t])

\* sorted() returning the keys as the dict holds them, in insertion order.
sorted_as_inserted(keys) == keys

\* sorted(data.items()): keys is the dict's keys in insertion order; as the
\* keys of a dict differ, the order of the (key, value) tuples is that of
\* their keys.
RECURSIVE sorted(_)
sorted(keys) ==
    IF keys = <<>> THEN <<>>
    ELSE LET m == CHOOSE i \in 1..Len(keys) :
                      \A j \in 1..Len(keys) : j # i => StrLess(keys[i], keys[j])
         IN  <<keys[m]>> \o
             sorted(SubSeq(keys, 1, m - 1) \o SubSeq(keys, m + 1, Len(keys)))

-----------------------------------------------------------------------------
(* The sedes of the rlp library that Status.items_sedes names *)

RECURSIVE int_to_big_endian(_)
int_to_big_endian(n) ==
    IF n = 0 THEN <<>> ELSE int_to_big_endian(n \div 256) \o <<n % 256>>

RECURSIVE big_endian_to_int(_)
big_endian_to_int(bytes) ==
    IF bytes = <<>> THEN 0
    ELSE big_endian_to_int(SubSeq(bytes, 1, Len(bytes) - 1)) * 256
           + bytes[Len(bytes)]

\* sedes.big_endian_int: minimal-length big-endian, no leading zero byte.
big_endian_int_serialize(n) ==
    IF n < 0 THEN Err("SerializationError") ELSE Ok(B(int_to_big_endian(n)))

big_endian_int_deserialize(item) ==
    IF item.t # "b" THEN Err("DeserializationError")
    ELSE IF Len(item.b) > 0 /\ item.b[1] = 0 THEN Err("DeserializationError")
    ELSE Ok(big_endian_to_int(item.b))

\* sedes.binary: a byte string as it is.
binary_serialize(bytes) == Ok(B(bytes))

binary_deserialize(item) ==
    IF item.t # "b" THEN Err("DeserializationError") ELSE Ok(item.b)

\* sedes.List([big_endian_int, big_endian_int, big_endian_int])
triple_serialize(triple) ==
    IF Len(triple) # 3 THEN Err("SerializationError")
    ELSE IF \E i \in 1..3 : ~big_endian_int_serialize(triple[i]).ok
    THEN Err("SerializationError")
    ELSE Ok(L([i \in 1..3 |-> big_endian_int_serialize(triple[i]).val]))

triple_deserialize(item) ==
    IF item.t # "l" THEN Err("DeserializationError")
    ELSE IF Len(item.l) # 3 THEN Err("DeserializationError")
    ELSE IF \E i \in 1..3 : ~big_endian_int_deserialize(item.l[i]).ok
    THEN Err("DeserializationError")
    ELSE Ok([i \in 1..3 |-> big_endian_int_deserialize(item.l[i]).val])

\* sedes.CountableList of the triples above
triples_serialize(triples) ==
    IF \E i \in 1..Len(triples) : ~triple_serialize(triples[i]).ok
    THEN Err("SerializationError")
    ELSE Ok(L([i \in 1..Len(triples) |-> triple_serialize(triples[i]).val]))

triples_deserialize(item) ==
    IF item.t # "l" THEN Err("DeserializationError")
    ELSE IF \E i \in 1..Len(item.l) : ~triple_deserialize(item.l[i]).ok
    THEN Err("DeserializationError")
    ELSE Ok([i \in 1..Len(item.l) |-> triple_deserialize(item.l[i]).val])

-----------------------------------------------------------------------------
(* class Status *)

Status_cmd_id == 0

\* Status.items_sedes: the sedes of each known key; "None" for the two keys
\* whose entry is None.
items_sedes ==
    [k \in {"protocolVersion", "networkId", "headTd", "headHash", "headNum",
            "genesisHash", "serveHeaders", "serveChainSince",
            "serveStateSince", "txRelay", "flowControl/BL",
            "flowControl/MRC", "flowControl/MRR"} |->
       CASE k \in {"headHash", "genesisHash"} -> "binary"
         [] k \in {"serveHeaders", "txRelay"} -> "None"
         [] k = "flowControl/MRC" -> "triples"
         [] OTHER -> "big_endian_int"]

serialize(item_sedes, value) ==
    CASE item_sedes = "big_endian_int" -> big_endian_int_serialize(value)
      [] item_sedes = "binary" -> binary_serialize(value)
      [] item_sedes = "triples" -> triples_serialize(value)

deserialize(item_sedes, item) ==
    CASE item_sedes = "big_endian_int" -> big_endian_int_deserialize(item)
      [] item_sedes = "binary" -> binary_deserialize(item)
      [] item_sedes = "triples" -> triples_deserialize(item)

EmptyDict == [k \in {} |-> TRUE]

\* d[k] = v on a dict
DictPut(d, k, v) == [x \in DOMAIN d \cup {k} |-> IF x = k THEN v ELSE d[x]]

\* Command.decode_payload with Status.structure,
\* CountableList(List([binary, raw])): the payload is a list of two-item
\* lists whose first item is a byte string; the second is kept raw.
Command_decode_payload(rlp_data) ==
    IF rlp_data.t # "l" THEN Err("DecodingError")
    ELSE IF \E i \in 1..Len(rlp_data.l) :
               \/ rlp_data.l[i].t # "l"
               \/ Len(rlp_data.l[i].l) # 2
               \/ rlp_data.l[i].l[1].t # "b"
    THEN Err("DecodingError")
    ELSE Ok([i \in 1..Len(rlp_data.l) |->
               <<rlp_data.l[i].l[1].b, rlp_data.l[i].l[2]>>])

\* The loop of Status.decode_payload over the (key, value) pairs from the
\* i-th on, and @to_dict around it: a later pair of a key replaces an
\* earlier one.
RECURSIVE decode_pairs(_, _, _)
decode_pairs(data, i, acc) ==
    IF i > Len(data) THEN Ok(acc)
    ELSE LET key == ascii_decode(data[i][1])
             value == data[i][2]
         IN  IF ~key.ok THEN key
             ELSE IF key.val \notin DOMAIN items_sedes
             THEN decode_pairs(data, i + 1, acc)
             ELSE LET item_sedes == items_sedes[key.val]
                  IN  IF item_sedes # "None"
                      THEN LET d == deserialize(item_sedes, value)
                           IN  IF ~d.ok THEN d
                               ELSE decode_pairs(data, i + 1,
                                                 DictPut(acc, key.val, d.val))
                      ELSE decode_pairs(data, i + 1,
                                        DictPut(acc, key.val, value))

\* Status.decode_payload
decode_payload(rlp_data) ==
    LET data == Command_decode_payload(rlp_data)
    IN  IF ~data.ok THEN data ELSE decode_pairs(data.val, 1, EmptyDict)

\* The list comprehension of Status.encode_payload over the sorted keys:
\* items_sedes[key] raises KeyError on a key it does not hold, and
\* None.serialize raises AttributeError.
RECURSIVE encode_pairs(_, _)
encode_pairs(keys, data) ==
    IF keys = <<>> THEN Ok(<<>>)
    ELSE LET key == Head(keys)
         IN  IF key \notin DOMAIN items_sedes THEN Err("KeyError")
             ELSE IF items_sedes[key] = "None" THEN Err("AttributeError")
             ELSE LET s == serialize(items_sedes[key], data[key])
                      rest == encode_pairs(Tail(keys), data)
                  IN  IF ~s.ok THEN s
                      ELSE IF ~rest.ok THEN rest
                      ELSE Ok(<<<<key, s.val>>>> \o rest.val)

\* Command.encode_payload with Status.structure: sedes.binary turns each str
\* key into its bytes.
Command_encode_payload(response) ==
    Ok(L([i \in 1..Len(response) |->
            L(<<B(AsciiOf[response[i][1]]), response[i][2]>>)]))

\* Status.encode_payload of the dict with the items data, inserted in the
\* order keys.
encode_payload(keys, data) ==
    LET response == encode_pairs(sorted(keys), data)
    IN  IF ~response.ok THEN response
        ELSE Command_encode_payload(response.val)

\* as_head_info taking reorg_depth from the message instead of 0.
as_head_info_reorg_from_msg(decoded) ==
    IF ~({"headNum", "headHash", "headTd"} \subseteq DOMAIN decoded)
    THEN Err("KeyError")
    ELSE Ok([block_number |-> decoded["headNum"],
             block_hash |-> decoded["headHash"],
             total_difficulty |-> decoded["headTd"],
             reorg_depth |-> decoded["headNum"]])

\* Status.as_head_info
as_head_info(decoded) ==
    IF ~({"headNum", "headHash", "headTd"} \subseteq DOMAIN decoded)
    THEN Err("KeyError")
    ELSE Ok([block_number |-> decoded["headNum"],
             block_hash |-> decoded["headHash"],
             total_difficulty |-> decoded["headTd"],
             reorg_depth |-> 0])

\* Announce.as_head_info with the reorg_depth Status.as_head_info gives.
Announce_as_head_info_no_reorg(decoded) ==
    Ok([block_number |-> decoded["head_number"],
        block_hash |-> decoded["head_hash"],
        total_difficulty |-> decoded["head_td"],
        reorg_depth |-> 0])

\* Announce.as_head_info: decoded comes from Announce.structure, which
\* yields every field.
Announce_as_head_info(decoded) ==
    Ok([block_number |-> decoded["head_number"],
        block_hash |-> decoded["head_hash"],
        total_difficulty |-> decoded["head_td"],
        reorg_depth |-> decoded["reorg_depth"]])

-----------------------------------------------------------------------------
(* The request messages *)

GetBlockHeaders_cmd_id == 2
GetBlockBodies_cmd_id == 4

\* A bool given to sedes.big_endian_int: True is 1, False is 0.
bool_to_int(b) == IF b THEN 1 ELSE 0

\* GetBlockHeaders(...).encode(data): request_id, then the four fields of
\* GetBlockHeadersQuery, each a big_endian_int.
GetBlockHeaders_encode(request_id, block, max_headers, skip, reverse) ==
    IF \E n \in {request_id, block, max_headers, skip, reverse} : n < 0
    THEN Err("SerializationError")
    ELSE Ok([cmd_id |-> GetBlockHeaders_cmd_id,
             payload |->
               L(<<big_endian_int_serialize(request_id).val,
                   L(<<big_endian_int_serialize(block).val,
                       big_endian_int_serialize(max_headers).val,
                       big_endian_int_serialize(skip).val,
                       big_endian_int_serialize(reverse).val>>)>>)])

\* GetBlockBodies(...).encode(data): request_id, then the hashes in order.
GetBlockBodies_encode(request_id, block_hashes) ==
    IF request_id < 0 THEN Err("SerializationError")
    ELSE Ok([cmd_id |-> GetBlockBodies_cmd_id,
             payload |->
               L(<<big_endian_int_serialize(request_id).val,
                   L([i \in 1..Len(block_hashes) |->
                        binary_serialize(block_hashes[i]).val])>>)])

\* GetBlockHeaders(...).decode: the fields of a payload, by the same
\* structure.
GetBlockHeaders_decode(payload) ==
    [request_id |-> big_endian_int_deserialize(payload.l[1]).val,
     block |-> big_endian_int_deserialize(payload.l[2].l[1]).val,
     max_headers |-> big_endian_int_deserialize(payload.l[2].l[2]).val,
     skip |-> big_endian_int_deserialize(payload.l[2].l[3]).val,
     reverse |-> big_endian_int_deserialize(payload.l[2].l[4]).val]

\* GetBlockBodies(...).decode
GetBlockBodies_decode(payload) ==
    [request_id |-> big_endian_int_deserialize(payload.l[1]).val,
     block_hashes |-> [i \in 1..Len(payload.l[2].l) |->
                         binary_deserialize(payload.l[2].l[i]).val]]

\* The request_id of a GetBlockHeaders or GetBlockBodies message: the first
\* field of both structures.
RequestIdOf(message) == big_endian_int_deserialize(message.payload.l[1]).val

-----------------------------------------------------------------------------
(* class LESProtocol *)

LESProtocol_version == 1

\* .constants.MAX_HEADERS_FETCH and MAX_BODIES_FETCH, scaled down.
MAX_HEADERS_FETCH == 2
MAX_BODIES_FETCH == 2

\* LESProtocol.send_handshake: the outcome, and on success the message
\* handed to self.send.  head_info.genesis_hash raises AttributeError on an
\* object without that attribute.
send_handshake(head_info, peer_network_id) ==
    IF "genesis_hash" \notin DOMAIN head_info THEN Err("AttributeError")
    ELSE LET resp == [k \in {"protocolVersion", "networkId", "headTd",
                             "headHash", "headNum", "genesisHash"} |->
                        CASE k = "protocolVersion" -> LESProtocol_version
                          [] k = "networkId" -> peer_network_id
                          [] k = "headTd" -> head_info.total_difficulty
                          [] k = "headHash" -> head_info.block_hash
                          [] k = "headNum" -> head_info.block_number
                          [] k = "genesisHash" -> head_info.genesis_hash]
             body == encode_payload(<<"protocolVersion", "networkId", "headTd",
                                      "headHash", "headNum", "genesisHash">>,
                                    resp)
         IN  IF ~body.ok THEN body
             ELSE Ok([cmd_id |-> Status_cmd_id, payload |-> body.val])

\* raise HandshakeFailure(reason), after logger.debug(log)
HandshakeFailure(reason, log) ==
    [ok |-> FALSE, err |-> "HandshakeFailure", reason |-> reason, log |-> log]

\* process_handshake without its genesis check.
process_handshake_genesis_unchecked(decoded_msg, peer_network_id, peer_genesis_hash) ==
    IF "networkId" \notin DOMAIN decoded_msg THEN Err("KeyError")
    ELSE IF decoded_msg["networkId"] # peer_network_id
    THEN HandshakeFailure("DisconnectReason.other",
                          "network does not match ours")
    ELSE IF "genesisHash" \notin DOMAIN decoded_msg THEN Err("KeyError")
    ELSE Ok("None")

\* process_handshake with its two checks in the other order.
process_handshake_genesis_first(decoded_msg, peer_network_id, peer_genesis_hash) ==
    IF "genesisHash" \notin DOMAIN decoded_msg THEN Err("KeyError")
    ELSE IF decoded_msg["genesisHash"] # peer_genesis_hash
    THEN HandshakeFailure("DisconnectReason.other",
                          "genesis does not match ours")
    ELSE IF "networkId" \notin DOMAIN decoded_msg THEN Err("KeyError")
    ELSE IF decoded_msg["networkId"] # peer_network_id
    THEN HandshakeFailure("DisconnectReason.other",
                          "network does not match ours")
    ELSE Ok("None")

\* process_handshake raising its network failure with another member of
\* DisconnectReason.
process_handshake_network_useless_peer(decoded_msg, peer_network_id, peer_genesis_hash) ==
    IF "networkId" \notin DOMAIN decoded_msg THEN Err("KeyError")
    ELSE IF decoded_msg["networkId"] # peer_network_id
    THEN HandshakeFailure("DisconnectReason.useless_peer",
                          "network does not match ours")
    ELSE IF "genesisHash" \notin DOMAIN decoded_msg THEN Err("KeyError")
    ELSE IF decoded_msg["genesisHash"] # peer_genesis_hash
    THEN HandshakeFailure("DisconnectReason.other",
                          "genesis does not match ours")
    ELSE Ok("None")

\* process_handshake also refusing a remote that does not announce
\* serveHeaders.
process_handshake_requires_serveHeaders(decoded_msg, peer_network_id, peer_genesis_hash) ==
    IF "networkId" \notin DOMAIN decoded_msg THEN Err("KeyError")
    ELSE IF decoded_msg["networkId"] # peer_network_id
    THEN HandshakeFailure("DisconnectReason.other",
                          "network does not match ours")
    ELSE IF "genesisHash" \notin DOMAIN decoded_msg THEN Err("KeyError")
    ELSE IF decoded_msg["genesisHash"] # peer_genesis_hash
    THEN HandshakeFailure("DisconnectReason.other",
                          "genesis does not match ours")
    ELSE IF "serveHeaders" \notin DOMAIN decoded_msg
    THEN HandshakeFailure("DisconnectReason.useless_peer",
                          "remote does not serve headers")
    ELSE Ok("None")

\* process_handshake reading the two keys with dict.get: a missing key is
\* None, which equals neither local value.
process_handshake_missing_is_mismatch(decoded_msg, peer_network_id, peer_genesis_hash) ==
    IF "networkId" \notin DOMAIN decoded_msg
    THEN HandshakeFailure("DisconnectReason.other",
                          "network does not match ours")
    ELSE IF decoded_msg["networkId"] # peer_network_id
    THEN HandshakeFailure("DisconnectReason.other",
                          "network does not match ours")
    ELSE IF "genesisHash" \notin DOMAIN decoded_msg
    THEN HandshakeFailure("DisconnectReason.other",
                          "genesis does not match ours")
    ELSE IF decoded_msg["genesisHash"] # peer_genesis_hash
    THEN HandshakeFailure("DisconnectReason.other",
                          "genesis does not match ours")
    ELSE Ok("None")

\* LESProtocol.process_handshake
process_handshake(decoded_msg, peer_network_id, peer_genesis_hash) ==
    IF "networkId" \notin DOMAIN decoded_msg THEN Err("KeyError")
    ELSE IF decoded_msg["networkId"] # peer_network_id
    THEN HandshakeFailure("DisconnectReason.other",
                          "network does not match ours")
    ELSE IF "genesisHash" \notin DOMAIN decoded_msg THEN Err("KeyError")
    ELSE IF decoded_msg["genesisHash"] # peer_genesis_hash
    THEN HandshakeFailure("DisconnectReason.other",
                          "genesis does not match ours")
    ELSE Ok("None")

\* send_get_block_bodies refusing a request of exactly the limit.
send_get_block_bodies_off_by_one(block_hashes, request_id) ==
    IF Len(block_hashes) >= MAX_BODIES_FETCH THEN Err("ValueError")
    ELSE GetBlockBodies_encode(request_id, block_hashes)

\* LESProtocol.send_get_block_bodies
send_get_block_bodies(block_hashes, request_id) ==
    IF Len(block_hashes) > MAX_BODIES_FETCH THEN Err("ValueError")
    ELSE GetBlockBodies_encode(request_id, block_hashes)

\* send_get_block_headers refusing a request of exactly the limit.
send_get_block_headers_off_by_one(block_number, max_headers, request_id, reverse) ==
    IF max_headers >= MAX_HEADERS_FETCH THEN Err("ValueError")
    ELSE GetBlockHeaders_encode(request_id, block_number, max_headers, 0,
                                bool_to_int(reverse))

\* send_get_block_headers that does not pass its reverse argument on.
send_get_block_headers_ignoring_reverse(block_number, max_headers, request_id, reverse) ==
    IF max_headers > MAX_HEADERS_FETCH THEN Err("ValueError")
    ELSE GetBlockHeaders_encode(request_id, block_number, max_headers, 0,
                                bool_to_int(TRUE))

\* LESProtocol.send_get_block_headers
send_get_block_headers(block_number, max_headers, request_id, reverse) ==
    IF max_headers > MAX_HEADERS_FETCH THEN Err("ValueError")
    ELSE LET skip == 0
         IN  GetBlockHeaders_encode(request_id, block_number, max_headers,
                                    skip, bool_to_int(reverse))

\* A call of send_get_block_headers as Python binds it: the signature has
\* no skip parameter, so a call that gives one raises TypeError; reverse
\* defaults to True.
call_send_get_block_headers(args) ==
    IF args.skip # NotGiven THEN Err("TypeError")
    ELSE send_get_block_headers(
             args.block_number, args.max_headers, args.request_id,
             IF args.reverse = NotGiven THEN TRUE ELSE args.reverse[1])

-----------------------------------------------------------------------------
(* The session around LESProtocol: the handshake state and the negotiated *)
(* parameters the peer keeps.                                              *)

\* A session that goes on after a failed handshake.
SessionOpen_after_failure == TRUE

\* The session does not continue after a failed handshake.
SessionOpen == hs_state # "Terminated"

\* Unestablished -> Established on success, -> Terminated on failure.
AfterHandshake(result) == IF result.ok THEN "Established" ELSE "Terminated"

-----------------------------------------------------------------------------
(* Inputs *)

MaxSent == 2

HashA == <<170>>
HashB == <<187>>
HashC == <<1, 204>>

NetworkIds == {1, 2}
GenesisHashes == {HashA, HashB}

\* The local peers: a network id and the hash of its genesis block.
LocalPeers == {<<1, HashA>>, <<2, HashB>>}

HeadInfo(block_number, block_hash, total_difficulty, reorg_depth) ==
    [block_number |-> block_number, block_hash |-> block_hash,
     total_difficulty |-> total_difficulty, reorg_depth |-> reorg_depth]

\* A HeadInfo with the genesis_hash attribute the callers' chain info has.
WithGenesis(head_info, genesis) ==
    [block_number |-> head_info.block_number,
     block_hash |-> head_info.block_hash,
     total_difficulty |-> head_info.total_difficulty,
     reorg_depth |-> head_info.reorg_depth,
     genesis_hash |-> genesis]

HeadInfos == {HeadInfo(100, HashC, 5000, 0), HeadInfo(0, HashA, 0, 3)}

\* What send_handshake is called with: a HeadInfo, or an object that also
\* has genesis_hash.
SendHandshakeArgs ==
    HeadInfos \cup {WithGenesis(h, genesis_hash) : h \in HeadInfos}

DictWithout(d, K) == [k \in DOMAIN d \ K |-> d[k]]

StatusOf(n, g) ==
    [k \in {"protocolVersion", "networkId", "genesisHash", "headNum",
            "headHash", "headTd"} |->
       CASE k = "protocolVersion" -> 1
         [] k = "networkId" -> n
         [] k = "genesisHash" -> g
         [] k = "headNum" -> 150
         [] k = "headHash" -> HashC
         [] k = "headTd" -> 5000]

\* Decoded Status messages of the remote: complete ones, with and without
\* serveHeaders, and ones that lack the head keys, networkId, genesisHash
\* or both.
DecodedMsgs ==
    UNION {{StatusOf(n, g),
            DictPut(StatusOf(n, g), "serveHeaders", B(<<>>)),
            DictWithout(StatusOf(n, g), {"headNum", "headHash", "headTd"}),
            DictWithout(StatusOf(n, g), {"networkId"}),
            DictWithout(StatusOf(n, g), {"genesisHash"}),
            DictWithout(StatusOf(n, g), {"networkId", "genesisHash"})} :
           n \in NetworkIds, g \in GenesisHashes}

\* Calls of send_get_block_headers.
HeaderCalls ==
    {[block_number |-> c[1], request_id |-> c[2], reverse |-> c[3],
      skip |-> c[4], max_headers |-> m] :
       c \in {<<0, 7, NotGiven, NotGiven>>,
              <<300, 7, Given(FALSE), NotGiven>>,
              <<300, 8, Given(TRUE), NotGiven>>,
              <<300, 8, NotGiven, Given(2)>>},
       m \in 0..(MAX_HEADERS_FETCH + 1)}

\* The first n hashes of h1, h2, h1, h2, ...
Alternate(h1, h2, n) == [i \in 1..n |-> IF i % 2 = 1 THEN h1 ELSE h2]

\* Calls of send_get_block_bodies.
BodyCalls ==
    {[block_hashes |-> Alternate(c[1], c[2], n), request_id |-> c[3]] :
       c \in {<<HashA, HashB, 7>>, <<HashB, HashC, 8>>},
       n \in 0..(MAX_BODIES_FETCH + 1)}

-----------------------------------------------------------------------------
(* The operations *)

NoCall == [op |-> "none", args |-> <<>>, result |-> Ok("None")]

Call(op, args, result) == [op |-> op, args |-> args, result |-> result]

Init ==
    /\ \E peer \in LocalPeers :
           network_id = peer[1] /\ genesis_hash = peer[2]
    /\ hs_state = "Unestablished"
    /\ negotiated = EmptyDict
    /\ sent = <<>>
    /\ last = NoCall

\* self.send(header, body) after a call that did not raise
Transport(result) == IF result.ok THEN Append(sent, result.val) ELSE sent

SendHandshake(head_info) ==
    /\ SessionOpen
    /\ Len(sent) < MaxSent
    /\ LET result == send_handshake(head_info, network_id)
       IN  /\ sent' = Transport(result)
           /\ last' = Call("send_handshake", head_info, result)
    /\ UNCHANGED <<network_id, genesis_hash, hs_state, negotiated>>

ProcessHandshake(decoded_msg) ==
    /\ hs_state = "Unestablished"
    /\ LET result == process_handshake(decoded_msg, network_id, genesis_hash)
       IN  /\ hs_state' = AfterHandshake(result)
           /\ negotiated' = IF result.ok THEN decoded_msg ELSE negotiated
           /\ last' = Call("process_handshake", decoded_msg, result)
    /\ UNCHANGED <<network_id, genesis_hash, sent>>

\* RequestHeaders remembering the request ids in flight and refusing one
\* that is already in use.
RequestHeaders_unique_ids(args) ==
    /\ SessionOpen
    /\ Len(sent) < MaxSent
    /\ LET in_flight == {RequestIdOf(sent[i]) :
                           i \in {j \in 1..Len(sent) :
                                    sent[j].cmd_id # Status_cmd_id}}
           result == IF args.request_id \in in_flight THEN Err("ValueError")
                     ELSE call_send_get_block_headers(args)
       IN  /\ sent' = Transport(result)
           /\ last' = Call("send_get_block_headers", args, result)
    /\ UNCHANGED <<network_id, genesis_hash, hs_state, negotiated>>

RequestHeaders(args) ==
    /\ SessionOpen
    /\ Len(sent) < MaxSent
    /\ LET result == call_send_get_block_headers(args)
       IN  /\ sent' = Transport(result)
           /\ last' = Call("send_get_block_headers", args, result)
    /\ UNCHANGED <<network_id, genesis_hash, hs_state, negotiated>>

RequestBodies(args) ==
    /\ SessionOpen
    /\ Len(sent) < MaxSent
    /\ LET result == send_get_block_bodies(args.block_hashes, args.request_id)
       IN  /\ sent' = Transport(result)
           /\ last' = Call("send_get_block_bodies", args, result)
    /\ UNCHANGED <<network_id, genesis_hash, hs_state, negotiated>>

Next ==
    \/ \E head_info \in SendHandshakeArgs : SendHandshake(head_info)
    \/ \E decoded_msg \in DecodedMsgs : ProcessHandshake(decoded_msg)
    \/ \E args \in HeaderCalls : RequestHeaders(args)
    \/ \E args \in BodyCalls : RequestBodies(args)

Spec == Init /\ [][Next]_vars

-----------------------------------------------------------------------------
(* The codec on its own: Status.encode_payload, Status.decode_payload and *)
(* the as_head_info methods applied to bounded inputs.                    *)

MaxKeys == 2
MaxPairs == 2

CostTable == <<<<2, 10, 3>>, <<4, 0, 70000>>>>

\* A value in the domain of each key's type; the two presence flags are
\* given as the raw item a decode yields for them.  variant picks between
\* two values of each key.
SampleValue(k, variant) ==
    CASE k = "protocolVersion" -> IF variant = 1 THEN 1 ELSE 2
      [] k = "networkId" -> IF variant = 1 THEN 1 ELSE 300
      [] k = "headTd" -> IF variant = 1 THEN 5000 ELSE 0
      [] k = "headHash" -> IF variant = 1 THEN HashC ELSE <<0, 7>>
      [] k = "headNum" -> IF variant = 1 THEN 150 ELSE 65536
      [] k = "genesisHash" -> IF variant = 1 THEN HashA ELSE <<>>
      [] k = "serveHeaders" -> IF variant = 1 THEN B(<<>>) ELSE L(<<>>)
      [] k = "serveChainSince" -> IF variant = 1 THEN 0 ELSE 255
      [] k = "serveStateSince" -> IF variant = 1 THEN 256 ELSE 1
      [] k = "txRelay" -> IF variant = 1 THEN B(<<>>) ELSE B(<<1>>)
      [] k = "flowControl/BL" -> IF variant = 1 THEN 300 ELSE 0
      [] k = "flowControl/MRC" -> IF variant = 1 THEN CostTable ELSE <<>>
      [] k = "flowControl/MRR" -> IF variant = 1 THEN 1 ELSE 257
      [] k = "announceType" -> IF variant = 1 THEN 1 ELSE 2
      [] k = "serveRecentState" -> IF variant = 1 THEN 128 ELSE 0

\* The dicts encode_payload is given: up to MaxKeys keys, known or not.
Mappings ==
    {[k \in K |-> SampleValue(k, variant)] :
       K \in {K \in SUBSET DOMAIN AsciiOf : Cardinality(K) <= MaxKeys},
       variant \in {1, 2}}

\* The raw item of a key's value on the wire.
WireValue(k, value) ==
    IF k \in DOMAIN items_sedes /\ items_sedes[k] # "None"
    THEN serialize(items_sedes[k], value).val
    ELSE IF k \notin DOMAIN items_sedes THEN big_endian_int_serialize(value).val
    ELSE value

WirePair(key_bytes, item) == L(<<B(key_bytes), item>>)

\* (key, value) pairs a remote may send: every known key with a value of
\* its type, known keys with a value not of their type, a key the table
\* does not know, and keys that are not ASCII.
WirePairs ==
    {WirePair(AsciiOf[k], WireValue(k, SampleValue(k, 1))) :
       k \in DOMAIN AsciiOf}
    \cup {WirePair(AsciiOf["networkId"], B(<<2>>)),
          WirePair(AsciiOf["networkId"], B(<<0, 1>>)),
          WirePair(AsciiOf["headHash"], L(<<>>)),
          WirePair(AsciiOf["flowControl/MRC"], L(<<L(<<B(<<1>>), B(<<2>>)>>)>>)),
          WirePair(AsciiOf["announceType"], L(<<B(<<0>>)>>)),
          WirePair(<<255>>, B(<<>>)),
          WirePair(<<104, 233>>, L(<<>>))}

\* The payloads decode_payload is given: up to MaxPairs pairs, and two
\* payloads that are not a list of pairs.
Payloads ==
    {L(pairs) : pairs \in UNION {[1..n -> WirePairs] : n \in 0..MaxPairs}}
    \cup {B(<<1>>), L(<<L(<<B(AsciiOf["txRelay"])>>)>>)}

\* The orders in which a dict of the keys K can have been filled.
InsertionOrders(K) ==
    {keys \in [1..Cardinality(K) -> K] :
       \A i, j \in 1..Cardinality(K) : keys[i] = keys[j] => i = j}

\* One call per behaviour: the codec keeps no state between calls.
EncodePayload(data) ==
    /\ last.op = "none"
    /\ \E keys \in InsertionOrders(DOMAIN data) :
          last' = [op |-> "encode_payload", args |-> data, keys |-> keys,
                   result |-> encode_payload(keys, data)]
    /\ UNCHANGED <<network_id, genesis_hash, hs_state, negotiated, sent>>

DecodePayload(rlp_data) ==
    /\ last.op = "none"
    /\ last' = Call("decode_payload", rlp_data, decode_payload(rlp_data))
    /\ UNCHANGED <<network_id, genesis_hash, hs_state, negotiated, sent>>

\* Decoded Announce messages: every field of Announce.structure.
AnnounceMsgs ==
    {[head_hash |-> h, head_number |-> n, head_td |-> 5000 + n,
      reorg_depth |-> r, params |-> p] :
       h \in {HashA, HashC}, n \in {0, 150}, r \in {0, 1, 7},
       p \in {<<>>, <<<<AsciiOf["headTd"], B(<<19, 137>>)>>>>}}

\* as_head_info reads decoded and assigns to none of its items: after is
\* the message as the call leaves it.
StatusAsHeadInfo(decoded) ==
    /\ last.op = "none"
    /\ last' = [op |-> "Status.as_head_info", args |-> decoded,
                after |-> decoded, result |-> as_head_info(decoded)]
    /\ UNCHANGED <<network_id, genesis_hash, hs_state, negotiated, sent>>

AnnounceAsHeadInfo(decoded) ==
    /\ last.op = "none"
    /\ last' = [op |-> "Announce.as_head_info", args |-> decoded,
                after |-> decoded, result |-> Announce_as_head_info(decoded)]
    /\ UNCHANGED <<network_id, genesis_hash, hs_state, negotiated, sent>>

CodecInit ==
    /\ network_id = 1
    /\ genesis_hash = HashA
    /\ hs_state = "Unestablished"
    /\ negotiated = EmptyDict
    /\ sent = <<>>
    /\ last = NoCall

CodecNext ==
    \/ \E data \in Mappings : EncodePayload(data)
    \/ \E rlp_data \in Payloads : DecodePayload(rlp_data)
    \/ \E decoded \in DecodedMsgs : StatusAsHeadInfo(decoded)
    \/ \E decoded \in AnnounceMsgs : AnnounceAsHeadInfo(decoded)

CodecSpec == CodecInit /\ [][CodecNext]_vars

-----------------------------------------------------------------------------
(* Properties *)

Raised(result, exception) == ~result.ok /\ result.err = exception

\* The step appended exactly one message to the transport log.
SentOne == Len(sent') = Len(sent) + 1 /\ SubSeq(sent', 1, Len(sent)) = sent

LastSent == sent[Len(sent)]

HandshakeOn(keys) == last.op = "process_handshake" /\ keys \subseteq DOMAIN last.args

\* C1: on a decoded Status message that carries networkId and genesisHash,
\* process_handshake raises HandshakeFailure if and only if the networkId
\* differs from the local network id or the genesisHash differs from the
\* local genesis hash, and returns without error when both are equal.
C1_HandshakeFailsIffMismatch ==
    HandshakeOn({"networkId", "genesisHash"}) =>
        LET mismatch == \/ last.args["networkId"] # network_id
                        \/ last.args["genesisHash"] # genesis_hash
        IN  /\ Raised(last.result, "HandshakeFailure") <=> mismatch
            /\ last.result.ok <=> ~mismatch

C1_Witness ==
    /\ HandshakeOn({"networkId", "genesisHash"})
    /\ last.args["networkId"] = network_id
    /\ last.args["genesisHash"] # genesis_hash
    /\ Raised(last.result, "HandshakeFailure")

\* C2 as claimed: the HandshakeFailure of a networkId mismatch has the
\* reason NetworkMismatch and that of a genesisHash mismatch the reason
\* GenesisMismatch.
C2_ReasonNamesTheCheck ==
    (HandshakeOn({"networkId", "genesisHash"})
       /\ Raised(last.result, "HandshakeFailure")) =>
        last.result.reason = IF last.args["networkId"] # network_id
                             THEN "NetworkMismatch"
                             ELSE "GenesisMismatch"

\* C2, amended: process_handshake checks the networkId first, so a
\* different networkId raises HandshakeFailure after logging the network
\* mismatch, whatever the genesisHash is; an equal networkId with a
\* different genesisHash raises HandshakeFailure after logging the genesis
\* mismatch; both failures carry the same reason, DisconnectReason.other.
C2_SameReasonNetworkFirst ==
    /\ (HandshakeOn({"networkId"}) /\ last.args["networkId"] # network_id) =>
          /\ Raised(last.result, "HandshakeFailure")
          /\ last.result.reason = "DisconnectReason.other"
          /\ last.result.log = "network does not match ours"
    /\ (HandshakeOn({"networkId", "genesisHash"})
          /\ last.args["networkId"] = network_id
          /\ last.args["genesisHash"] # genesis_hash) =>
          /\ Raised(last.result, "HandshakeFailure")
          /\ last.result.reason = "DisconnectReason.other"
          /\ last.result.log = "genesis does not match ours"

C2_Witness ==
    /\ HandshakeOn({"networkId", "genesisHash"})
    /\ last.args["networkId"] # network_id
    /\ last.args["genesisHash"] # genesis_hash
    /\ Raised(last.result, "HandshakeFailure")
    /\ last.result.log = "network does not match ours"

HeadersCall == last.op = "send_get_block_headers"
BodiesCall == last.op = "send_get_block_bodies"

\* C5: send_get_block_headers with max_headers above MAX_HEADERS_FETCH
\* raises (ValueError) and hands nothing to the transport; with max_headers
\* up to and including MAX_HEADERS_FETCH it hands exactly one GetBlockHeaders
\* message to the transport, whose query.max_headers is max_headers.
C5_HeadersLimit ==
    [][(HeadersCall' /\ last'.args.skip = NotGiven) =>
          IF last'.args.max_headers > MAX_HEADERS_FETCH
          THEN Raised(last'.result, "ValueError") /\ sent' = sent
          ELSE /\ last'.result.ok
               /\ SentOne
               /\ LastSent'.cmd_id = GetBlockHeaders_cmd_id
               /\ GetBlockHeaders_decode(LastSent'.payload).max_headers =
                      last'.args.max_headers]_vars

C5_Witness ==
    /\ HeadersCall
    /\ last.args.max_headers = MAX_HEADERS_FETCH
    /\ last.result.ok
    /\ GetBlockHeaders_decode(LastSent.payload).max_headers = MAX_HEADERS_FETCH

\* C6: send_get_block_bodies with more than MAX_BODIES_FETCH hashes raises
\* (ValueError) and hands nothing to the transport; with up to and including
\* MAX_BODIES_FETCH hashes it hands exactly one GetBlockBodies message to the
\* transport, with the given request_id and the given hashes in their order.
C6_BodiesLimit ==
    [][BodiesCall' =>
          IF Len(last'.args.block_hashes) > MAX_BODIES_FETCH
          THEN Raised(last'.result, "ValueError") /\ sent' = sent
          ELSE /\ last'.result.ok
               /\ SentOne
               /\ LastSent'.cmd_id = GetBlockBodies_cmd_id
               /\ GetBlockBodies_decode(LastSent'.payload) =
                      [request_id |-> last'.args.request_id,
                       block_hashes |-> last'.args.block_hashes]]_vars

C6_Witness ==
    /\ BodiesCall
    /\ Len(last.args.block_hashes) = MAX_BODIES_FETCH
    /\ last.args.block_hashes[1] # last.args.block_hashes[MAX_BODIES_FETCH]
    /\ last.result.ok
    /\ GetBlockBodies_decode(LastSent.payload).block_hashes =
           last.args.block_hashes

\* The direction a call asks for, as the wire carries it.
WireReverse(args) ==
    IF args.reverse = NotGiven \/ args.reverse = Given(TRUE) THEN 1 ELSE 0

\* C7 as claimed: a request for headers within the limit, with or without a
\* skip, sends a GetBlockHeaders message with the request_id, the start
\* block and the direction of the call, and with the skip of the call, 0
\* when the call gives none.
C7_SkipOfTheCaller ==
    (HeadersCall /\ last.args.max_headers <= MAX_HEADERS_FETCH) =>
        /\ last.result.ok
        /\ GetBlockHeaders_decode(last.result.val.payload) =
               [request_id |-> last.args.request_id,
                block |-> last.args.block_number,
                max_headers |-> last.args.max_headers,
                skip |-> IF last.args.skip = NotGiven THEN 0
                         ELSE last.args.skip[1],
                reverse |-> WireReverse(last.args)]

\* C7, amended: send_get_block_headers has no skip parameter: a call that
\* gives one raises TypeError and hands nothing to the transport; a
\* successful call hands over a GetBlockHeaders message with the request_id,
\* the start block and the direction of the call (reverse defaulting to
\* True; 1 for True, 0 for False), and its skip is always 0.
C7_SkipAlwaysZero ==
    [][HeadersCall' =>
          /\ last'.args.skip # NotGiven =>
                 (Raised(last'.result, "TypeError") /\ sent' = sent)
          /\ last'.result.ok =>
                 /\ last'.args.skip = NotGiven
                 /\ SentOne
                 /\ GetBlockHeaders_decode(LastSent'.payload) =
                        [request_id |-> last'.args.request_id,
                         block |-> last'.args.block_number,
                         max_headers |-> last'.args.max_headers,
                         skip |-> 0,
                         reverse |-> WireReverse(last'.args)]]_vars

C7_Witness ==
    /\ HeadersCall
    /\ last.result.ok
    /\ last.args.reverse = Given(FALSE)
    /\ GetBlockHeaders_decode(LastSent.payload).reverse = 0
    /\ GetBlockHeaders_decode(LastSent.payload).skip = 0
    /\ GetBlockHeaders_decode(LastSent.payload).block = 300

\* C8: send_handshake with a Head Summary hands exactly one Status message
\* (command 0) to the transport, whose networkId, genesisHash, headNum,
\* headHash and headTd are the local ones, and leaves the handshake state
\* as it was.
C8_HandshakeSent ==
    [][last'.op = "send_handshake" =>
          /\ last'.result.ok
          /\ SentOne
          /\ LastSent'.cmd_id = Status_cmd_id
          /\ LET decoded == decode_payload(LastSent'.payload)
             IN  /\ decoded.ok
                 /\ decoded.val["networkId"] = network_id
                 /\ decoded.val["genesisHash"] = genesis_hash
                 /\ decoded.val["headNum"] = last'.args.block_number
                 /\ decoded.val["headHash"] = last'.args.block_hash
                 /\ decoded.val["headTd"] = last'.args.total_difficulty
          /\ hs_state' = hs_state
          /\ negotiated' = negotiated]_vars

\* The known key a wire key spells, as a set: empty for any other key.
KnownKeyOf(key_bytes) == {k \in DOMAIN items_sedes : AsciiOf[k] = key_bytes}

\* The native value of a known key's raw item.
TypedValue(k, item) ==
    IF items_sedes[k] = "None" THEN item ELSE deserialize(items_sedes[k], item).val

\* C9: encoding a dict of known keys, each with a value of its type,
\* succeeds, and decoding the result yields the dict.
C9_RoundTrip ==
    (last.op = "encode_payload" /\ DOMAIN last.args \subseteq DOMAIN items_sedes) =>
        /\ last.result.ok
        /\ LET decoded == decode_payload(last.result.val)
           IN  decoded.ok /\ decoded.val = last.args

\* C10: decoding a well-formed list of (key, value) pairs in which every
\* known key has a value of its type succeeds, whatever the other keys and
\* their values are, and yields exactly the known keys on the wire, each
\* with the typed value of one of its pairs.
C10_UnknownKeysIgnored ==
    LET data == Command_decode_payload(last.args).val
    IN  (/\ last.op = "decode_payload"
         /\ Command_decode_payload(last.args).ok
         /\ \A i \in 1..Len(data) : \A k \in KnownKeyOf(data[i][1]) :
                items_sedes[k] # "None" =>
                    deserialize(items_sedes[k], data[i][2]).ok) =>
            /\ last.result.ok
            /\ DOMAIN last.result.val =
                   UNION {KnownKeyOf(data[i][1]) : i \in 1..Len(data)}
            /\ \A k \in DOMAIN last.result.val :
                   \E i \in 1..Len(data) :
                       /\ k \in KnownKeyOf(data[i][1])
                       /\ last.result.val[k] = TypedValue(k, data[i][2])

\* The keys of an encoded payload, in the order of its pairs.
WireKeys(payload) == [i \in 1..Len(payload.l) |-> payload.l[i].l[1].b]

\* C11: the encoding of a dict does not depend on the order in which the
\* dict was filled: every insertion order of the same items gives the same
\* outcome and, on success, the same payload, whose pairs are in strictly
\* ascending order of their keys.
C11_CanonicalEncoding ==
    last.op = "encode_payload" =>
        /\ \A keys \in InsertionOrders(DOMAIN last.args) :
               LET other == encode_payload(keys, last.args)
               IN  /\ other.ok = last.result.ok
                   /\ other.ok => other.val = last.result.val
        /\ last.result.ok =>
               LET wire == WireKeys(last.result.val)
               IN  \A i \in 1..(Len(wire) - 1) : BytesLess(wire[i], wire[i + 1])

\* A dict filled in descending order of its keys is encoded.
C11_Witness ==
    /\ last.op = "encode_payload"
    /\ last.result.ok
    /\ Len(last.keys) >= 2
    /\ StrLess(last.keys[2], last.keys[1])

\* C12: encoding a dict that holds a key items_sedes does not know raises
\* KeyError, the lookup error on that key, and hands nothing to the
\* transport.
C12_UnknownKeyRaisesKeyError ==
    (last.op = "encode_payload" /\ ~(DOMAIN last.args \subseteq DOMAIN items_sedes)) =>
        /\ Raised(last.result, "KeyError")
        /\ sent = <<>>

\* C13: Status.as_head_info gives the message's headNum, headHash and
\* headTd with reorg_depth 0; Announce.as_head_info gives the message's
\* head_number, head_hash and head_td with the message's own reorg_depth;
\* neither changes the message it is given.
C13_HeadSummaries ==
    /\ (/\ last.op = "Status.as_head_info"
        /\ {"headNum", "headHash", "headTd"} \subseteq DOMAIN last.args) =>
           /\ last.result = Ok(HeadInfo(last.args["headNum"],
                                        last.args["headHash"],
                                        last.args["headTd"], 0))
           /\ last.after = last.args
    /\ last.op = "Announce.as_head_info" =>
           /\ last.result = Ok(HeadInfo(last.args["head_number"],
                                        last.args["head_hash"],
                                        last.args["head_td"],
                                        last.args["reorg_depth"]))
           /\ last.after = last.args

\* The head summary of an Announce message that reports a reorg.
C13_Witness ==
    /\ last.op = "Announce.as_head_info"
    /\ last.args["reorg_depth"] = 7
    /\ last.result.ok
    /\ last.result.val.reorg_depth = 7
    /\ last.result.val.block_number = 150

\* C14: every HandshakeFailure process_handshake raises carries a
\* disconnect reason, and a networkId that differs from the local one
\* raises HandshakeFailure with the reason DisconnectReason.other.
C14_FailureCarriesReason ==
    last.op = "process_handshake" =>
        /\ Raised(last.result, "HandshakeFailure") =>
               /\ "reason" \in DOMAIN last.result
               /\ last.result.reason \in {"DisconnectReason.other"}
        /\ ("networkId" \in DOMAIN last.args
              /\ last.args["networkId"] # network_id) =>
               /\ Raised(last.result, "HandshakeFailure")
               /\ last.result.reason = "DisconnectReason.other"

\* A handshake that fails on the network id alone.
C14_Witness ==
    /\ HandshakeOn({"networkId", "genesisHash"})
    /\ last.args["networkId"] # network_id
    /\ last.args["genesisHash"] = genesis_hash
    /\ Raised(last.result, "HandshakeFailure")
    /\ last.result.reason = "DisconnectReason.other"
    /\ hs_state = "Terminated"

\* C15: decoding a well-formed payload in which a known key with a sedes
\* has a value that sedes cannot deserialize raises the sedes'
\* DeserializationError: the key is not dropped and no dict is returned.
C15_IllTypedValueRaises ==
    LET data == Command_decode_payload(last.args).val
    IN  (/\ last.op = "decode_payload"
         /\ Command_decode_payload(last.args).ok
         /\ \E i \in 1..Len(data) : \E k \in KnownKeyOf(data[i][1]) :
                /\ items_sedes[k] # "None"
                /\ ~deserialize(items_sedes[k], data[i][2]).ok) =>
            Raised(last.result, "DeserializationError")

\* C16: a request keeps no state of its own.  A send_get_block_headers or
\* send_get_block_bodies call leaves the handshake state and the negotiated
\* parameters as they were, and a call within its limit succeeds whatever
\* was requested before, handing the transport one message that carries the
\* caller's request_id unchanged, also when an earlier request used the
\* same request_id.
C16_RequestsKeepNoState ==
    [][(HeadersCall' \/ BodiesCall') =>
          /\ hs_state' = hs_state
          /\ negotiated' = negotiated
          /\ last'.result.ok <=>
                 IF HeadersCall'
                 THEN /\ last'.args.skip = NotGiven
                      /\ last'.args.max_headers <= MAX_HEADERS_FETCH
                 ELSE Len(last'.args.block_hashes) <= MAX_BODIES_FETCH
          /\ last'.result.ok =>
                 /\ SentOne
                 /\ RequestIdOf(LastSent') = last'.args.request_id]_vars

\* Two requests with the same request_id have been sent on an established
\* session.
C16_Witness ==
    /\ hs_state = "Established"
    /\ negotiated # EmptyDict
    /\ Len(sent) = 2
    /\ sent[1].cmd_id = GetBlockBodies_cmd_id
    /\ sent[2].cmd_id = GetBlockHeaders_cmd_id
    /\ RequestIdOf(sent[1]) = RequestIdOf(sent[2])
    /\ HeadersCall

\* The items of a decoded Status message under networkId and genesisHash.
NetworkAndGenesis(decoded_msg) ==
    [k \in DOMAIN decoded_msg \cap {"networkId", "genesisHash"} |-> decoded_msg[k]]

\* Two calls returned alike, or raised the same exception with the same
\* reason and log.
SameOutcome(r1, r2) ==
    /\ r1.ok = r2.ok
    /\ ~r1.ok =>
           /\ r1.err = r2.err
           /\ r1.err = "HandshakeFailure" =>
                  (r1.reason = r2.reason /\ r1.log = r2.log)

\* C17: the outcome of process_handshake depends on nothing in the message
\* but networkId and genesisHash: every message that agrees with the one
\* processed on these two keys has the same outcome, whatever its other
\* keys are, and on a message with both equal to the local values the call
\* returns without error, with serveHeaders or without.
C17_OutcomeFromTwoKeys ==
    last.op = "process_handshake" =>
        /\ \A other \in DecodedMsgs :
               NetworkAndGenesis(other) = NetworkAndGenesis(last.args) =>
                   SameOutcome(process_handshake(other, network_id, genesis_hash),
                               last.result)
        /\ (/\ {"networkId", "genesisHash"} \subseteq DOMAIN last.args
            /\ last.args["networkId"] = network_id
            /\ last.args["genesisHash"] = genesis_hash) =>
               last.result.ok

\* A handshake completed with a remote that does not announce serveHeaders.
C17_Witness ==
    /\ last.op = "process_handshake"
    /\ "serveHeaders" \notin DOMAIN last.args
    /\ "headNum" \in DOMAIN last.args
    /\ last.result.ok
    /\ hs_state = "Established"

\* The keys of a set, one after the other.
RECURSIVE KeysOf(_)
KeysOf(K) ==
    IF K = {} THEN <<>>
    ELSE LET k == CHOOSE x \in K : TRUE IN <<k>> \o KeysOf(K \ {k})

\* A payload of the remote that holds the items of decoded_msg, one pair
\* for each.
StatusPayloadOf(decoded_msg) ==
    LET keys == KeysOf(DOMAIN decoded_msg)
    IN  L([i \in 1..Len(keys) |->
             WirePair(AsciiOf[keys[i]], WireValue(keys[i], decoded_msg[keys[i]]))])

\* C18: a payload without networkId or without genesisHash decodes, to a
\* dict without that key, and process_handshake on such a dict raises
\* KeyError, which is no HandshakeFailure and carries no disconnect reason:
\* without networkId always, whatever genesisHash is, and without
\* genesisHash when the networkId equals the local one; without genesisHash
\* and with another networkId it raises the HandshakeFailure of the network
\* check.
C18_MissingKeyIsKeyError ==
    (/\ last.op = "process_handshake"
     /\ ~({"networkId", "genesisHash"} \subseteq DOMAIN last.args)) =>
        /\ decode_payload(StatusPayloadOf(last.args)) = Ok(last.args)
        /\ IF "networkId" \in DOMAIN last.args
              /\ last.args["networkId"] # network_id
           THEN Raised(last.result, "HandshakeFailure")
           ELSE /\ Raised(last.result, "KeyError")
                /\ "reason" \notin DOMAIN last.result

\* A Status message of the local network without genesisHash has been
\* processed.
C18_Witness ==
    /\ last.op = "process_handshake"
    /\ "genesisHash" \notin DOMAIN last.args
    /\ "networkId" \in DOMAIN last.args
    /\ last.args["networkId"] = network_id
    /\ Raised(last.result, "KeyError")
    /\ decode_payload(StatusPayloadOf(last.args)).ok

\* The index of the last pair of data whose key is key_bytes.
LastIndexOf(data, key_bytes) ==
    CHOOSE i \in 1..Len(data) :
        /\ data[i][1] = key_bytes
        /\ \A j \in (i + 1)..Len(data) : data[j][1] # key_bytes

\* C19: decoding a well-formed payload in which a key occurs more than
\* once, every known key having values of its type, succeeds; the dict
\* holds each known key of the payload once, with the typed value of the
\* key's last pair, and holds no other key, so that the pairs of keys the
\* table does not know, repeated or not, change nothing.
C19_LastOccurrenceWins ==
    LET data == Command_decode_payload(last.args).val
    IN  (/\ last.op = "decode_payload"
         /\ Command_decode_payload(last.args).ok
         /\ \E i, j \in 1..Len(data) : i # j /\ data[i][1] = data[j][1]
         /\ \A i \in 1..Len(data) : \A k \in KnownKeyOf(data[i][1]) :
                items_sedes[k] # "None" =>
                    deserialize(items_sedes[k], data[i][2]).ok) =>
            /\ last.result.ok
            /\ DOMAIN last.result.val =
                   UNION {KnownKeyOf(data[i][1]) : i \in 1..Len(data)}
            /\ \A k \in DOMAIN last.result.val :
                   last.result.val[k] =
                       TypedValue(k, data[LastIndexOf(data, AsciiOf[k])][2])

=============================================================================
